---- MODULE Spec2Model ----
(***************************************************************************)
(* CausalDAG_Sum: the CaGreS summarisation of a causal DAG (src/algo.py;   *)
(* src/algorithms/algo.py holds the same functions but get_grounded_dag).  *)
(*                                                                         *)
(* A node label is a Python string, modelled as a sequence of one-char     *)
(* strings; the label of a cluster is its members joined by ",\n".  A      *)
(* graph is a record [nodes, edges]: nodes is the sequence of labels in    *)
(* networkx's insertion order (the order itertools.combinations scans),    *)
(* edges the set of <<from, to>> pairs.                                    *)
(***************************************************************************)
EXTENDS Integers, Sequences, FiniteSets, TLC

VARIABLES entry, dag, k, similarity_df, semantic_threshold, H, pc, last, once,
          summary_dag, nodes, G, idx

vars == <<entry, dag, k, similarity_df, semantic_threshold, H, pc, last, once,
          summary_dag, nodes, G, idx>>

(* ------------------------------ bounds -------------------------------- *)

\* Largest number of nodes of an input DAG of CaGreS / low_cost_merges.
MaxNodes == 4

\* Largest number of summary nodes, and of members of one cluster, of an
\* input of get_grounded_dag; longest atomic identifier of such an input.
MaxSummaryNodes == 2
MaxMembers == 2
MaxNameLen == 2

(* ------------------------------ strings ------------------------------- *)

\* The separator ',\n' of cluster labels.
Sep == <<",", "\n">>

Range(s) == {s[i] : i \in 1..Len(s)}

Abs(x) == IF x < 0 THEN -x ELSE x

Max(a, b) == IF a >= b THEN a ELSE b

\* Python's  sub in s  on strings: sub occurs in s as a substring.
Contains(sub, s) ==
    \E i \in 0..(Len(s) - Len(sub)) : SubSeq(s, i + 1, i + Len(sub)) = sub

RECURSIVE SplitFrom(_, _, _)
SplitFrom(s, i, cur) ==
    IF i > Len(s) THEN <<cur>>
    ELSE IF i + 1 <= Len(s) /\ SubSeq(s, i, i + 1) = Sep
         THEN <<cur>> \o SplitFrom(s, i + 2, <<>>)
         ELSE SplitFrom(s, i + 1, Append(cur, s[i]))

\* label.split(',\n'): the list of pieces between the separators.
Split(s) == SplitFrom(s, 1, <<>>)

\* n1 + ",\n" + n2
JoinLabels(n1, n2) == n1 \o Sep \o n2

(* ------------------------------ graphs -------------------------------- *)

has_edge(g, u, v) == <<u, v>> \in g.edges

predecessors(g, n) == {e[1] : e \in {x \in g.edges : x[2] = n}}

successors(g, n) == {e[2] : e \in {x \in g.edges : x[1] = n}}

RECURSIVE NoCycle(_, _)
NoCycle(ns, es) ==
    IF ns = {} THEN TRUE
    ELSE LET src == {n \in ns : ~ \E e \in es : e[2] = n}
         IN  IF src = {} THEN FALSE
             ELSE NoCycle(ns \ src, {e \in es : e[1] \notin src})

\* nx.is_directed_acyclic_graph: no directed cycle, a self-loop included.
is_directed_acyclic_graph(g) == NoCycle(Range(g.nodes), g.edges)

RemoveFromSeq(s, x) == SelectSeq(s, LAMBDA y : y # x)

\* nx.contracted_nodes(G, u, v, self_loops): v is removed and every edge
\* incident to v is remapped onto u; an edge between u and v becomes a
\* self-loop of u, or is dropped when self_loops is false.
contracted_nodes(g, u, v, self_loops) ==
    LET remap(n) == IF n = v THEN u ELSE n
        atV   == {e \in g.edges : e[1] = v \/ e[2] = v}
        moved == {e \in atV : self_loops \/ {e[1], e[2]} # {u, v}}
    IN  [nodes |-> RemoveFromSeq(g.nodes, v),
         edges |-> (g.edges \ atV) \cup {<<remap(e[1]), remap(e[2])>> : e \in moved}]

\* nx.relabel_nodes(G, {old: new}): a copy with old renamed, order kept.
relabel_nodes(g, old, new) ==
    LET m(n) == IF n = old THEN new ELSE n
    IN  [nodes |-> [i \in 1..Len(g.nodes) |-> m(g.nodes[i])],
         edges |-> {<<m(e[1]), m(e[2])>> : e \in g.edges}]

merge_nodes(g, n1, n2, self_loops) ==
    relabel_nodes(contracted_nodes(g, n1, n2, self_loops), n1, JoinLabels(n1, n2))

(* --------------------------- validity, cost --------------------------- *)

\* similarity_df is None, or a table t with t[s1][s2] the similarity.
NoTable == [none |-> TRUE, t |-> <<>>]

Table(t) == [none |-> FALSE, t |-> t]

check_semantic(node1, node2, df, threshold) ==
    IF df.none THEN TRUE
    ELSE LET sub1 == Split(node1)
             sub2 == Split(node2)
         IN  \A i \in 1..Len(sub1) : \A j \in 1..Len(sub2) :
                ~ (Max(df.t[sub1[i]][sub2[j]], df.t[sub2[j]][sub1[i]]) < threshold)

\* a_valid_pair without step (B), the cycle probe.
a_valid_pair_no_probe(U, V, g, df, threshold) ==
    check_semantic(U, V, df, threshold)

\* a_valid_pair probing with self_loops=False.
a_valid_pair_drop_loops(U, V, g, df, threshold) ==
    /\ check_semantic(U, V, df, threshold)
    /\ is_directed_acyclic_graph(merge_nodes(g, U, V, FALSE))

a_valid_pair(U, V, g, df, threshold) ==
    /\ check_semantic(U, V, df, threshold)
    /\ is_directed_acyclic_graph(merge_nodes(g, U, V, TRUE))

\* get_cost without term (1), the cost of the missing edge U->V.
get_cost_no_base(U, V, g) ==
    LET sizeU == Len(Split(U))
        sizeV == Len(Split(V))
    IN  Cardinality(predecessors(g, U) \ predecessors(g, V)) * sizeV
      + Cardinality(predecessors(g, V) \ predecessors(g, U)) * sizeU
      + Cardinality(successors(g, U) \ successors(g, V)) * sizeV
      + Cardinality(successors(g, V) \ successors(g, U)) * sizeU

get_cost(U, V, g) ==
    LET sizeU == Len(Split(U))
        sizeV == Len(Split(V))
        parentsU == predecessors(g, U)
        parentsV == predecessors(g, V)
        childrenU == successors(g, U)
        childrenV == successors(g, V)
    IN  (IF ~ has_edge(g, U, V) THEN sizeU * sizeV ELSE 0)
      + Cardinality(parentsU \ parentsV) * sizeV
      + Cardinality(parentsV \ parentsU) * sizeU
      + Cardinality(childrenU \ childrenV) * sizeV
      + Cardinality(childrenV \ childrenU) * sizeU

(* ----------------------- itertools.combinations ----------------------- *)

\* The index pairs <<i, j>>, i < j, in the order combinations(nodes, 2)
\* yields them; NextPair steps to the following one, <<>> after the last.
FirstPair(n) == IF n >= 2 THEN <<1, 2>> ELSE <<>>

NextPair(p, n) ==
    IF p[2] < n THEN <<p[1], p[2] + 1>>
    ELSE IF p[1] + 1 < n THEN <<p[1] + 1, p[1] + 2>>
    ELSE <<>>

(* -------------------------- low_cost_merges --------------------------- *)

RECURSIVE LowCostFrom(_, _, _, _)
LowCostFrom(g, df, threshold, p) ==
    IF p = <<>> THEN <<>>
    ELSE LET n1 == g.nodes[p[1]]
             n2 == g.nodes[p[2]]
         IN  IF a_valid_pair(n1, n2, g, df, threshold) /\ get_cost(n1, n2, g) <= 1
             THEN <<n1, n2>>
             ELSE LowCostFrom(g, df, threshold, NextPair(p, Len(g.nodes)))

\* One run of the for loop of low_cost_merges: the first pair, in
\* combinations order, that is valid and costs <= 1; <<>> when the scan
\* ends without one (merged_something stays False).
LowCostScan(g, df, threshold) ==
    LowCostFrom(g, df, threshold, FirstPair(Len(g.nodes)))

\* low_cost_merges without its while loop: one scan, at most one merge.
low_cost_merges_one_merge(g, df, threshold) ==
    LET p == LowCostScan(g, df, threshold)
    IN  IF p = <<>> THEN g ELSE merge_nodes(g, p[1], p[2], FALSE)

RECURSIVE low_cost_merges(_, _, _)
low_cost_merges(g, df, threshold) ==
    LET p == LowCostScan(g, df, threshold)
    IN  IF p = <<>> THEN g
        ELSE low_cost_merges(merge_nodes(g, p[1], p[2], FALSE), df, threshold)

(* ------------------------ the greedy loop's scan ---------------------- *)

\* math.inf, for costs that stay far below it.
MathInf == 1000000

\* The inverse of rel_tol = 1e-9.
RelTolInv == 1000000000

\* math.isclose(a, b, rel_tol=1e-9) on integers:
\*   |a - b| <= rel_tol * max(|a|, |b|).
isclose(a, b) == Abs(a - b) <= Max(Abs(a), Abs(b)) \div RelTolInv

\* semantic_threshold=0.0: what CaGreS hands to a_valid_pair in its loop,
\* whatever its own semantic_threshold argument is.
LoopThreshold == 0

\* semantic_threshold=0.0: the default of low_cost_merges, which is what
\* CaGreS's call  low_cost_merges(H, similarity_df)  runs with.
DefaultThreshold == 0

\* The scan step without the comparison with min_cost: the last valid
\* pair is kept.
ScanStepKeepLast(S, g, df, p) ==
    LET U == g.nodes[p[1]]
        V == g.nodes[p[2]]
    IN  IF ~ a_valid_pair(U, V, g, df, LoopThreshold) THEN S
        ELSE {[min_cost |-> get_cost(U, V, g), best_pair |-> <<U, V>>]}

\* One iteration of the for loop of CaGreS on the set S of possible
\* (min_cost, best_pair) values; random.choice gives both outcomes.
ScanStep(S, g, df, p) ==
    LET U == g.nodes[p[1]]
        V == g.nodes[p[2]]
    IN  IF ~ a_valid_pair(U, V, g, df, LoopThreshold) THEN S
        ELSE LET c == get_cost(U, V, g)
             IN  UNION {IF c < s.min_cost
                           THEN {[min_cost |-> c, best_pair |-> <<U, V>>]}
                        ELSE IF isclose(c, s.min_cost)
                           THEN {s, [min_cost |-> s.min_cost, best_pair |-> <<U, V>>]}
                        ELSE {s} : s \in S}

RECURSIVE ScanFrom(_, _, _, _)
ScanFrom(S, g, df, p) ==
    IF p = <<>> THEN S
    ELSE ScanFrom(ScanStep(S, g, df, p), g, df, NextPair(p, Len(g.nodes)))

\* The values best_pair can have after the scan of all pairs.
BestPairs(g, df) ==
    {s.best_pair : s \in ScanFrom({[min_cost |-> MathInf, best_pair |-> <<>>]},
                                  g, df, FirstPair(Len(g.nodes)))}

\* while len(H.nodes) >= k
LoopCondGe(g, kk) == Len(g.nodes) >= kk

\* while len(H.nodes) > k
LoopCond(g, kk) == Len(g.nodes) > kk

(* ------------------------------ inputs -------------------------------- *)

AtomNames == <<"A", "B", "C", "D", "E", "F">>

\* The label of the i-th atomic node.
Atom(i) == <<AtomNames[i]>>

EmptyGraph == [nodes |-> <<>>, edges |-> {}]

\* The acyclic graphs on the atomic nodes 1..n, in every insertion order
\* relative to their edges.
InputDAGs(n) ==
    LET ns == [i \in 1..n |-> Atom(i)]
        pairs == {<<ns[i], ns[j]>> : i \in 1..n, j \in 1..n} \ {<<ns[i], ns[i]>> : i \in 1..n}
    IN  {g \in [nodes : {ns}, edges : SUBSET pairs] : is_directed_acyclic_graph(g)}

\* Similarity scores and thresholds, as integers on one scale.
SimVals == {-1, 0, 1}
Thresholds == {0, 1}

\* The tables over the atoms 1..n that score 1 everywhere but on at most
\* one pair of atoms, scored freely in each direction.
SimTables(n) ==
    LET as == {Atom(i) : i \in 1..n}
        uniform == [a \in as |-> [b \in as |-> 1]]
    IN  {uniform} \cup
        {[uniform EXCEPT ![a] = [@ EXCEPT ![b] = x], ![b] = [@ EXCEPT ![a] = y]] :
            a \in as, b \in as, x \in SimVals, y \in SimVals}

\* The last merge performed: its phase, its pair, the graph it was chosen
\* in, and the number of merges of each phase so far.
NoMerge == [phase |-> "none", U |-> <<>>, V |-> <<>>, before |-> EmptyGraph,
            npre |-> 0, ngreedy |-> 0]

GroundIdle ==
    /\ summary_dag = EmptyGraph
    /\ nodes = <<>>
    /\ G = [nodes |-> {}, edges |-> {}]
    /\ idx = 0

(* ------------------------------ CaGreS -------------------------------- *)

\* CaGreS(dag, k) with no similarity table.
Init ==
    /\ entry = "CaGreS"
    /\ \E n \in 1..MaxNodes : dag \in InputDAGs(n)
    /\ k \in 1..MaxNodes
    /\ similarity_df = NoTable
    /\ semantic_threshold = 0
    /\ H = dag
    /\ pc = "pre"
    /\ last = NoMerge
    /\ once = EmptyGraph
    /\ GroundIdle

\* CaGreS(dag, k, similarity_df, semantic_threshold).
InitSem ==
    /\ entry = "CaGreS"
    /\ \E n \in 1..(MaxNodes - 1) :
          /\ dag \in InputDAGs(n)
          /\ similarity_df \in {Table(t) : t \in SimTables(n)}
    /\ k \in 1..(MaxNodes - 1)
    /\ semantic_threshold \in Thresholds
    /\ H = dag
    /\ pc = "pre"
    /\ last = NoMerge
    /\ once = EmptyGraph
    /\ GroundIdle

Merged(g, p, phase) ==
    [phase |-> phase, U |-> p[1], V |-> p[2], before |-> g,
     npre |-> last.npre + (IF phase = "pre" THEN 1 ELSE 0),
     ngreedy |-> last.ngreedy + (IF phase = "greedy" THEN 1 ELSE 0)]

\* One pass of the while loop of low_cost_merges: the scan finds a pair and
\* merges it, or finds none and low_cost_merges returns.
PrePass ==
    /\ pc = "pre"
    /\ LET p == LowCostScan(H, similarity_df, DefaultThreshold)
       IN  \/ /\ p # <<>>
              /\ H' = merge_nodes(H, p[1], p[2], FALSE)
              /\ last' = Merged(H, p, "pre")
              /\ pc' = pc
           \/ /\ p = <<>>
              /\ pc' = "loop"
              /\ UNCHANGED <<H, last>>
    /\ UNCHANGED <<entry, dag, k, similarity_df, semantic_threshold, once,
                   summary_dag, nodes, G, idx>>

\* One iteration of the main loop: best_pair is merged, or is None and the
\* loop breaks.
GreedyIteration ==
    /\ pc = "loop"
    /\ LoopCond(H, k)
    /\ \E bp \in BestPairs(H, similarity_df) :
          \/ /\ bp # <<>>
             /\ H' = merge_nodes(H, bp[1], bp[2], FALSE)
             /\ last' = Merged(H, bp, "greedy")
             /\ pc' = pc
          \/ /\ bp = <<>>
             /\ pc' = "done"
             /\ UNCHANGED <<H, last>>
    /\ UNCHANGED <<entry, dag, k, similarity_df, semantic_threshold, once,
                   summary_dag, nodes, G, idx>>

\* len(H.nodes) <= k: return H.
GreedyReturn ==
    /\ pc = "loop"
    /\ ~ LoopCond(H, k)
    /\ pc' = "done"
    /\ UNCHANGED <<entry, dag, k, similarity_df, semantic_threshold, H, last, once,
                   summary_dag, nodes, G, idx>>

Next == PrePass \/ GreedyIteration \/ GreedyReturn

Spec == Init /\ [][Next]_vars

SpecSem == InitSem /\ [][Next]_vars

(* ------------------- low_cost_merges, run twice ----------------------- *)

\* low_cost_merges(dag, similarity_df, semantic_threshold) on its own.
InitPre ==
    /\ entry = "low_cost_merges"
    /\ \/ /\ \E n \in 1..MaxNodes : dag \in InputDAGs(n)
          /\ similarity_df = NoTable
          /\ semantic_threshold = DefaultThreshold
       \/ /\ \E n \in 1..(MaxNodes - 1) :
                /\ dag \in InputDAGs(n)
                /\ similarity_df \in {Table(t) : t \in SimTables(n)}
          /\ semantic_threshold \in Thresholds
    /\ k = 0
    /\ H = dag
    /\ pc = "pass1"
    /\ last = NoMerge
    /\ once = EmptyGraph
    /\ GroundIdle

FirstPass ==
    /\ pc = "pass1"
    /\ H' = low_cost_merges(H, similarity_df, semantic_threshold)
    /\ once' = H'
    /\ pc' = "pass2"
    /\ UNCHANGED <<entry, dag, k, similarity_df, semantic_threshold, last,
                   summary_dag, nodes, G, idx>>

SecondPass ==
    /\ pc = "pass2"
    /\ H' = low_cost_merges(H, similarity_df, semantic_threshold)
    /\ pc' = "passed"
    /\ UNCHANGED <<entry, dag, k, similarity_df, semantic_threshold, last, once,
                   summary_dag, nodes, G, idx>>

NextPre == FirstPass \/ SecondPass

SpecPre == InitPre /\ [][NextPre]_vars

(* -------------------------- get_grounded_dag -------------------------- *)

\* G of get_grounded_dag_auxiliary is kept as a set of nodes and a set of
\* edges: the loop reads its neighbourhoods only, never its node order.
AsSets(g) == [nodes |-> Range(g.nodes), edges |-> g.edges]

\* G.add_edge for every edge of es: missing endpoints become nodes.
add_edges(g, es) ==
    [nodes |-> g.nodes \cup {e[1] : e \in es} \cup {e[2] : e \in es},
     edges |-> g.edges \cup es]

remove_node(g, n) ==
    [nodes |-> g.nodes \ {n},
     edges |-> {e \in g.edges : e[1] # n /\ e[2] # n}]

\* The inner loop "for node_before in nodes" for one new_node: the entries
\* of the order that occur in the label n, up to the break at new_node.
NodesBefore(order, n, new_node) ==
    LET hit  == {j \in 1..Len(order) : Contains(order[j], n) /\ order[j] = new_node}
        stop == IF hit = {} THEN Len(order) + 1
                ELSE CHOOSE j \in hit : \A j2 \in hit : j <= j2
    IN  {order[j] : j \in {j2 \in 1..(stop - 1) : Contains(order[j2], n)}}

\* The body of the loop of get_grounded_dag_auxiliary for a cluster n.
SplitCluster(g, order, n) ==
    LET new_nodes == Range(Split(n))
        parents   == predecessors(g, n)
        children  == successors(g, n)
        wired     == {<<p, m>> : p \in parents, m \in new_nodes}
                     \cup {<<m, c>> : m \in new_nodes, c \in children}
        chained   == UNION {{<<b, m>> : b \in NodesBefore(order, n, m)} : m \in new_nodes}
    IN  remove_node(add_edges(g, wired \cup chained), n)

Injective(f) == \A i \in DOMAIN f : \A j \in DOMAIN f : i # j => f[i] # f[j]

\* The orders of the elements of S.
Orders(S) == {f \in [1..Cardinality(S) -> S] : Injective(f)}

\* nx.topological_sort(g): an order of the nodes with every edge forward
\* (which one, networkx decides from its adjacency order).
topological_sort(g) ==
    {f \in Orders(Range(g.nodes)) :
        \A i \in DOMAIN f : \A j \in DOMAIN f : <<f[i], f[j]>> \in g.edges => i < j}

GAlphabet == {"a", "b"}

\* The atomic identifiers: the words of 1..MaxNameLen letters.
Names == UNION {[1..m -> GAlphabet] : m \in 1..MaxNameLen}

RECURSIVE JoinAll(_)
JoinAll(ms) == IF Len(ms) = 1 THEN ms[1] ELSE JoinLabels(ms[1], JoinAll(Tail(ms)))

\* The member lists of a node: 1..MaxMembers distinct identifiers.
MemberLists == {ms \in UNION {[1..m -> Names] : m \in 1..MaxMembers} : Injective(ms)}

\* The summary graphs: 1..MaxSummaryNodes nodes over pairwise distinct
\* identifiers, and an acyclic set of edges between them.
SummaryDAGs ==
    LET lists == {l \in UNION {[1..c -> MemberLists] : c \in 1..MaxSummaryNodes} :
                     \A i \in DOMAIN l : \A j \in DOMAIN l :
                         i # j => Range(l[i]) \cap Range(l[j]) = {}}
        graphs(l) ==
            LET ns == [i \in DOMAIN l |-> JoinAll(l[i])]
                pairs == {<<ns[i], ns[j]>> : i \in DOMAIN l, j \in DOMAIN l}
                           \ {<<ns[i], ns[i]>> : i \in DOMAIN l}
            IN  {g \in [nodes : {ns}, edges : SUBSET pairs] : is_directed_acyclic_graph(g)}
    IN  UNION {graphs(l) : l \in lists}

AtomsOf(g) == UNION {Range(Split(g.nodes[i])) : i \in 1..Len(g.nodes)}

ReduceIdle ==
    /\ dag = EmptyGraph
    /\ k = 0
    /\ similarity_df = NoTable
    /\ semantic_threshold = 0
    /\ H = EmptyGraph
    /\ last = NoMerge
    /\ once = EmptyGraph

\* get_grounded_dag(summary_dag), which computes the order itself, or
\* get_grounded_dag_auxiliary(summary_dag, nodes) with the caller's order
\* of the atomic identifiers.
InitGround ==
    /\ summary_dag \in SummaryDAGs
    /\ \/ /\ entry = "get_grounded_dag"
          /\ nodes \in topological_sort(summary_dag)
       \/ /\ entry = "get_grounded_dag_auxiliary"
          /\ nodes \in Orders(AtomsOf(summary_dag))
    /\ G = AsSets(summary_dag)
    /\ idx = 1
    /\ pc = "ground"
    /\ ReduceIdle

\* for n in summary_dag.nodes, n a cluster label.
GroundCluster ==
    /\ pc = "ground"
    /\ idx <= Len(summary_dag.nodes)
    /\ Contains(Sep, summary_dag.nodes[idx])
    /\ G' = SplitCluster(G, nodes, summary_dag.nodes[idx])
    /\ idx' = idx + 1
    /\ UNCHANGED <<entry, dag, k, similarity_df, semantic_threshold, H, pc, last, once,
                   summary_dag, nodes>>

\* for n in summary_dag.nodes, n without ',\n': nothing to do.
GroundAtomic ==
    /\ pc = "ground"
    /\ idx <= Len(summary_dag.nodes)
    /\ ~ Contains(Sep, summary_dag.nodes[idx])
    /\ idx' = idx + 1
    /\ UNCHANGED <<entry, dag, k, similarity_df, semantic_threshold, H, pc, last, once,
                   summary_dag, nodes, G>>

\* return G
GroundReturn ==
    /\ pc = "ground"
    /\ idx > Len(summary_dag.nodes)
    /\ pc' = "grounded"
    /\ UNCHANGED <<entry, dag, k, similarity_df, semantic_threshold, H, last, once,
                   summary_dag, nodes, G, idx>>

NextGround == GroundCluster \/ GroundAtomic \/ GroundReturn

SpecGround == InitGround /\ [][NextGround]_vars

(* ------------------------------ claims -------------------------------- *)

\* The atomic identifiers of a label.
Members(n) == Range(Split(n))

Size(n) == Len(Split(n))

\* The pairs of nodes, as itertools.combinations(g.nodes, 2) yields them.
NodePairs(g) ==
    {<<g.nodes[q[1]], g.nodes[q[2]]>> :
        q \in {r \in (1..Len(g.nodes)) \X (1..Len(g.nodes)) : r[1] < r[2]}}

\* The pairs a_valid_pair accepts with the threshold t.
ValidPairs(g, df, t) == {p \in NodePairs(g) : a_valid_pair(p[1], p[2], g, df, t)}

InReduce == entry = "CaGreS"

LastCost == get_cost(last.U, last.V, last.before)

\* C1: every graph Reduce reaches (after each merge of the pre-reduction
\* pass, after each merge of the greedy loop, and the returned one) is
\* acyclic.
C1_Acyclic == InReduce => is_directed_acyclic_graph(H)

\* A run that merged in the pre-reduction pass and in the greedy loop and
\* returned a graph that still has an edge.
C1_Witness ==
    /\ pc = "done" /\ last.npre >= 1 /\ last.ngreedy >= 1
    /\ H.edges # {}

\* C2 as stated: with 1 <= k <= n the returned graph has exactly k nodes, or
\* more than k nodes and no valid pair; never fewer than k; with k = n no
\* merge is performed and the returned graph equals the input.
C2_Original ==
    (InReduce /\ pc = "done" /\ 1 <= k /\ k <= Len(dag.nodes)) =>
        /\ \/ Len(H.nodes) = k
           \/ Len(H.nodes) > k /\ ValidPairs(H, similarity_df, LoopThreshold) = {}
        /\ k = Len(dag.nodes) => H = dag /\ last.phase = "none"

\* C2 as amended: with 1 <= k <= n the greedy loop merges only from a graph
\* of more than k nodes, so the returned graph has at most k nodes or no
\* valid pair, and fewer than k nodes only when the pre-reduction pass
\* (which does not look at k) got there; with k = n the greedy loop merges
\* nothing and the returned graph is the pre-reduction's result, which is
\* the input when the input has no valid pair of cost <= 1.
C2_Amended ==
    /\ (InReduce /\ last.phase = "greedy") => Len(last.before.nodes) > k
    /\ (InReduce /\ pc = "done" /\ 1 <= k /\ k <= Len(dag.nodes)) =>
        /\ \/ Len(H.nodes) <= k
           \/ ValidPairs(H, similarity_df, LoopThreshold) = {}
        /\ last.ngreedy >= 1 => Len(H.nodes) >= k
        /\ Len(H.nodes) < k => last.ngreedy = 0 /\ last.npre >= 1
        /\ k = Len(dag.nodes) =>
              /\ last.ngreedy = 0
              /\ H = low_cost_merges(dag, similarity_df, DefaultThreshold)
              /\ (\A p \in ValidPairs(dag, similarity_df, DefaultThreshold) :
                     get_cost(p[1], p[2], dag) > 1) => H = dag

\* A return with exactly k nodes after greedy merges, from an input larger
\* than k by at least two.
C2_Witness ==
    /\ pc = "done" /\ last.ngreedy >= 1
    /\ Len(H.nodes) = k /\ Len(dag.nodes) >= k + 2

Chain4 == [nodes |-> <<Atom(1), Atom(2), Atom(3), Atom(4)>>,
           edges |-> {<<Atom(1), Atom(2)>>, <<Atom(2), Atom(3)>>, <<Atom(3), Atom(4)>>}]

\* C4: reducing the chain A->B->C->D with k = 2 returns exactly two nodes
\* whose members together are {A, B, C, D}, every merge on the way being of
\* a valid pair of minimal cost.
C4_Chain ==
    (dag = Chain4 /\ k = 2) =>
        /\ pc = "done" =>
              /\ Len(H.nodes) = 2
              /\ UNION {Members(H.nodes[i]) : i \in 1..Len(H.nodes)} = Range(dag.nodes)
        /\ last.phase # "none" =>
              \A p \in ValidPairs(last.before, similarity_df, LoopThreshold) :
                  LastCost <= get_cost(p[1], p[2], last.before)

Iso3 == [nodes |-> <<Atom(1), Atom(2), Atom(3)>>, edges |-> {}]

OneCluster == Len(H.nodes) = 1 /\ Members(H.nodes[1]) = Range(dag.nodes)

\* C5 as stated: reducing three isolated nodes with k = 1 merges all three
\* into one cluster, and the pair merged at each step has cost 0.
C5_Original ==
    (dag = Iso3 /\ k = 1) =>
        /\ pc = "done" => OneCluster
        /\ last.phase # "none" => LastCost = 0

\* C5 as amended: reducing three isolated nodes with k = 1 merges all three
\* into one cluster; the pair merged at each step has cost sizeU * sizeV:
\* 1 for the first merge (two atomic nodes, in the pre-reduction pass) and
\* 2 for the second (the two-member cluster with the third node, in the
\* greedy loop).
C5_Amended ==
    (dag = Iso3 /\ k = 1) =>
        /\ pc = "done" => OneCluster /\ last.npre = 1 /\ last.ngreedy = 1
        /\ last.phase # "none" => LastCost = Size(last.U) * Size(last.V)
        /\ last.phase = "pre" => LastCost = 1
        /\ last.phase = "greedy" => LastCost = 2

C5_Witness == dag = Iso3 /\ k = 1 /\ pc = "done" /\ last.phase = "greedy"

\* C6: the pre-reduction pass is idempotent: low_cost_merges applied to its
\* own result returns that result, nodes and edges, and the result holds no
\* valid pair of cost <= 1.
C6_Idempotent ==
    /\ pc = "passed" => H = once
    /\ pc \in {"pass2", "passed"} =>
          \A p \in ValidPairs(once, similarity_df, semantic_threshold) :
              get_cost(p[1], p[2], once) > 1

\* A second pass over the result of a first pass that merged twice and left
\* at least two nodes to scan.
C6_Witness ==
    /\ pc = "passed"
    /\ Len(once.nodes) >= 2
    /\ Len(once.nodes) + 2 <= Len(dag.nodes)

\* The least cost of a set of pairs of the graph g.
MinCost(ps, g) ==
    LET cs == {get_cost(p[1], p[2], g) : p \in ps}
    IN  CHOOSE c \in cs : \A c2 \in cs : c <= c2

\* C7: whatever the coin flips, the pair a greedy iteration merges is a
\* valid pair whose cost is the minimum over the valid pairs of the graph,
\* and the loop stops above k only when the graph has no valid pair.
C7_MinCost ==
    /\ (InReduce /\ last.phase = "greedy") =>
          LET valid == ValidPairs(last.before, similarity_df, LoopThreshold)
          IN  /\ <<last.U, last.V>> \in valid
              /\ LastCost = MinCost(valid, last.before)
    /\ (InReduce /\ pc = "done" /\ Len(H.nodes) > k) =>
          ValidPairs(H, similarity_df, LoopThreshold) = {}

\* A greedy merge of a pair that is not the first valid pair of the scan,
\* from a graph whose valid pairs have different costs.
C7_Witness ==
    /\ InReduce /\ last.phase = "greedy"
    /\ LET g == last.before
           valid == ValidPairs(g, similarity_df, LoopThreshold)
           pos(x) == CHOOSE i \in 1..Len(g.nodes) : g.nodes[i] = x
       IN  /\ \E p \in valid : get_cost(p[1], p[2], g) > LastCost
           /\ \E p \in valid :
                 /\ get_cost(p[1], p[2], g) = LastCost
                 /\ pos(p[1]) < pos(last.U)

\* C10: a pair joined by an edge is never valid; the clusters of every
\* graph Reduce reaches partition the input's atomic nodes, no cluster holds
\* both ends of an edge of the input, and every merged pair costs at least
\* sizeU * sizeV >= 1.
C10_NoAdjacentMerge ==
    InReduce =>
        LET mem == [i \in 1..Len(H.nodes) |-> Members(H.nodes[i])]
        IN  /\ \A p \in NodePairs(H) :
                  (has_edge(H, p[1], p[2]) \/ has_edge(H, p[2], p[1])) =>
                      ~ a_valid_pair(p[1], p[2], H, similarity_df, LoopThreshold)
            /\ UNION {mem[i] : i \in DOMAIN mem} = Range(dag.nodes)
            /\ \A i \in DOMAIN mem : \A j \in DOMAIN mem :
                  i # j => mem[i] \cap mem[j] = {}
            /\ \A i \in DOMAIN mem :
                  /\ Cardinality(mem[i]) = Size(H.nodes[i])
                  /\ \A e \in dag.edges : ~ (e[1] \in mem[i] /\ e[2] \in mem[i])
            /\ last.phase # "none" =>
                  /\ LastCost >= Size(last.U) * Size(last.V)
                  /\ Size(last.U) * Size(last.V) >= 1

\* A run with a similarity table that merged a pair in the greedy loop at a
\* cost above sizeU * sizeV and then stopped above k, its remaining nodes
\* joined by edges.
C10_Witness ==
    /\ InReduce /\ ~ similarity_df.none
    /\ pc = "done" /\ last.phase = "greedy"
    /\ Len(H.nodes) > k /\ H.edges # {}
    /\ LastCost > Size(last.U) * Size(last.V)

\* C3: with a similarity table and a threshold t, every merge Reduce
\* performs is of a pair (U, V) with max(sim[u][v], sim[v][u]) >= t for
\* every member u of U and v of V.
C3_Threshold ==
    (InReduce /\ last.phase # "none" /\ ~ similarity_df.none) =>
        \A u \in Members(last.U) : \A v \in Members(last.V) :
            Max(similarity_df.t[u][v], similarity_df.t[v][u]) >= semantic_threshold

\* C8: the nodes of get_grounded_dag's output are exactly the atomic
\* identifiers of the summary's labels: no cluster label remains, none is
\* lost, none is added.
C8_NodeSet ==
    (entry = "get_grounded_dag" /\ pc = "grounded") => G.nodes = AtomsOf(summary_dag)

Position(order, x) == CHOOSE j \in 1..Len(order) : order[j] = x

\* C9: in the output of Ground, any two distinct members of a cluster are
\* joined by an edge, from the one that is earlier in the order used to the
\* later one, whether the caller gave the order or Ground computed it.
C9_Chained ==
    pc = "grounded" =>
        \A i \in 1..Len(summary_dag.nodes) :
            \A a \in Members(summary_dag.nodes[i]) : \A b \in Members(summary_dag.nodes[i]) :
                a # b =>
                    /\ <<a, b>> \in G.edges \/ <<b, a>> \in G.edges
                    /\ (a \in Range(nodes) /\ b \in Range(nodes)
                        /\ Position(nodes, a) < Position(nodes, b)) => <<a, b>> \in G.edges

====
